---- MODULE Spec2Model ----
(***************************************************************************)
(* Model of the summarization pipeline of BEL-PDF-Summarizer:              *)
(*   src/pdf_processor.py  count_words / estimate_tokens                   *)
(*   src/summarizer.py     ReplicateSummarizerWorker (run, planner,        *)
(*                         map stage, reduce stage)                        *)
(*   src/config.py         REPLICATE_API_TOKEN default                     *)
(*                                                                         *)
(* A text is a sequence of segments.  A segment is a block of w words      *)
(* (single-space separated) followed by a separator:                       *)
(*   "dot"      ". "      sentence end                                     *)
(*   "para"     "\n\n"    blank line                                       *)
(*   "dotpara"  ".\n\n"   sentence end followed by a blank line            *)
(* The empty sequence is the empty (or whitespace-only) string.  The flag  *)
(* long is  len(text) > 500.                                               *)
(***************************************************************************)
EXTENDS Integers, Sequences, FiniteSets, TLC

\* ---------------------------------------------------------------- bounds
MaxSegs == 3
MaxRunSegs == 3
MaxFairSegs == 2
MaxProgressChunks == 8
MaxEstWords == 40
MaxEstTokens == 40
MaxBudgetSegs == 2

\* Word counts of one segment.  6153 words estimate to 7998 tokens, 6200 to
\* 8060 (over the ceiling), 3000 to 3900.
WordSizes == {1, 2, 3000, 6153, 6200}
RunWordSizes == {1, 6200}
\* 3 words estimate to 3 tokens, 1539 to 2000, 7693 to 10000.
BudgetWordSizes == {3, 1539, 7693}
Seps == {"dot", "para", "dotpara"}

\* ------------------------------------------------------ program constants
max_chunk_tokens == 8000
MaxMapOutputTokens == 4000
MaxReduceOutputTokens == 16000
LongTextChars == 500

HARDCODED_PLACEHOLDER == "YOUR_HARDCODED_REPLICATE_API_TOKEN_HERE"
CONFIG_DEFAULT_TOKEN == "PLEASE_SET_YOUR_REPLICATE_API_TOKEN_ENVIRONMENT_VARIABLE"
REAL_TOKEN == "r8_token"
Tokens == {"", HARDCODED_PLACEHOLDER, CONFIG_DEFAULT_TOKEN, REAL_TOKEN}
Levels == {"low", "medium", "high"}
Outcomes == {"returned", "raised"}

VARIABLES
    text_to_summarize,  \* constructor argument: the text
    summary_level,      \* constructor argument: 'low' | 'medium' | 'high'
    api_token,          \* constructor argument: the credential
    pc,                 \* position of run()
    target_tokens,      \* local of run()
    chunks,             \* local of run(): the planner's result
    chunk_summaries,    \* local of run(): the collected map results
    calls,              \* completion calls issued (client.run), in order
    progress_log,       \* values emitted on the progress signal, in order
    finished_log,       \* payloads emitted on the finished signal
    error_log,          \* payloads emitted on the error signal
    signal_log,         \* the names of the signals emitted, in order
    estimates,          \* what the token estimators returned
    app_worker,         \* app.py's copy of the worker: its run() state
    pdf,                \* PdfTextExtractor: the file at file_path
    extractor,          \* PdfTextExtractor: position and locals of run()
    extractor_signals,  \* PdfTextExtractor: the signals emitted, in order
    gui_module,         \* PdfSummarizerApp: the file it is run from
    window,             \* PdfSummarizerApp: its attributes and widgets
    threads,            \* PdfSummarizerApp: the worker threads started
    event_queue,        \* worker signals queued for the GUI thread
    gui_log             \* the handler the GUI thread ran last, and counts

copyVars == <<app_worker>>
extractorVars == <<pdf, extractor, extractor_signals>>
guiVars == <<gui_module, window, threads, event_queue, gui_log>>
runVars == <<text_to_summarize, summary_level, api_token, pc, target_tokens,
             chunks, chunk_summaries, calls, progress_log, finished_log,
             error_log, signal_log, estimates>>

vars == <<text_to_summarize, summary_level, api_token, pc, target_tokens,
          chunks, chunk_summaries, calls, progress_log, finished_log,
          error_log, signal_log, estimates, app_worker, pdf, extractor,
          extractor_signals, gui_module, window, threads, event_queue,
          gui_log>>

\* ------------------------------------------------------------------ texts
SegsOver(sizes, n) ==
    UNION {[1..k -> [w : sizes, sep : Seps]] : k \in 0..n}

RECURSIVE SumWords(_)
SumWords(s) == IF s = <<>> THEN 0 ELSE Head(s).w + SumWords(Tail(s))

\* n words separated by one space take at least 2n-1 characters, so a text
\* of 251 words or more is longer than 500 characters; a shorter one may or
\* may not be (words can be long).
LongChoices(segs) ==
    IF 2 * SumWords(segs) - 1 > LongTextChars THEN {TRUE} ELSE {TRUE, FALSE}

StringTexts(sizes, n) ==
    {[isStr |-> TRUE, segs |-> s, long |-> l] :
        <<s, l>> \in {p \in SegsOver(sizes, n) \X BOOLEAN : p[2] \in LongChoices(p[1])}}

\* A value that is no string (re.split raises TypeError on it).
NotAString == [isStr |-> FALSE, segs |-> <<>>, long |-> FALSE]

\* ------------------------------------------------------- token estimation
\* count_words of the text made of a sequence of units joined by "\n\n"
count_words(units) == SumWords(units)

\* round(word_count * 1.3) for int(word_count * 1.3)
estimate_tokens_Rounded(word_count) == (word_count * 13 + 5) \div 10

\* int(word_count * 1.3)
estimate_tokens(word_count) == (word_count * 13) \div 10

\* int(tokens * 1.3) for int(tokens / 1.3)
estimate_words_from_tokens_Multiplies(tokens) == (tokens * 13) \div 10

\* int(tokens / 1.3)
estimate_words_from_tokens(tokens) == (tokens * 10) \div 13

\* ---------------------------------------------------------------- planner
ParaBreaks == {"para", "dotpara"}
SentBreaks == {"dot", "dotpara"}

\* re.split on the separators in breaks, then strip and drop the empty
\* pieces.  A unit is the run of segments first..last with w words in all
\* (a separator that is not in breaks is whitespace or punctuation inside
\* the unit and leaves its word count alone).
RECURSIVE SplitAt(_, _, _, _, _)
SplitAt(segs, breaks, first, j, w) ==
    IF j > Len(segs) THEN <<>>
    ELSE LET w2 == w + segs[j].w IN
         IF segs[j].sep \in breaks \/ j = Len(segs)
         THEN <<[first |-> first, last |-> j, w |-> w2]>>
              \o SplitAt(segs, breaks, j + 1, j + 1, 0)
         ELSE SplitAt(segs, breaks, first, j + 1, w2)

Split(segs, breaks) == SplitAt(segs, breaks, 1, 1, 0)

\* The fallback test with the wrong comparison: fewer than 2 paragraphs.
SemanticUnits_FewerThanTwo(t) ==
    LET paragraphs == Split(t.segs, ParaBreaks) IN
    IF Len(paragraphs) < 2 /\ t.long
    THEN Split(t.segs, SentBreaks)
    ELSE paragraphs

\* lines 94-99: paragraphs, or sentences when there are at most 2
\* paragraphs and the text is longer than 500 characters
SemanticUnits(t) ==
    LET paragraphs == Split(t.segs, ParaBreaks) IN
    IF Len(paragraphs) <= 2 /\ t.long
    THEN Split(t.segs, SentBreaks)
    ELSE paragraphs

\* The flush test as a bug would write it: the running total alone.
FlushNeeded_RunningOnly(current_tokens, paragraph_tokens, current_chunk) ==
    current_tokens > max_chunk_tokens /\ current_chunk # <<>>

\* The flush test without its "and current_chunk": an oversized first unit
\* flushes the still empty running chunk.
FlushNeeded_NoEmptyCheck(current_tokens, paragraph_tokens, current_chunk) ==
    current_tokens + paragraph_tokens > max_chunk_tokens

\* The flush test with >= for >: a unit that fills the chunk exactly to
\* the ceiling is moved to a new chunk.
FlushNeeded_AtCeiling(current_tokens, paragraph_tokens, current_chunk) ==
    current_tokens + paragraph_tokens >= max_chunk_tokens /\ current_chunk # <<>>

\* line 111
FlushNeeded(current_tokens, paragraph_tokens, current_chunk) ==
    current_tokens + paragraph_tokens > max_chunk_tokens /\ current_chunk # <<>>

\* The new running chunk after a flush, as a bug would write it: the unit
\* that triggered the flush is lost.
StartChunk_DropUnit(paragraph) == <<>>

\* line 113
StartChunk(paragraph) == <<paragraph>>

\* One iteration of the packing loop that sets the running total to 0 after
\* a flush instead of to the estimate of the unit that opens the new chunk.
PackStep_ResetTokens(st, paragraph) ==
    LET paragraph_tokens == estimate_tokens(count_words(<<paragraph>>)) IN
    IF FlushNeeded(st.current_tokens, paragraph_tokens, st.current_chunk)
    THEN [chunks |-> Append(st.chunks, st.current_chunk),
          current_chunk |-> StartChunk(paragraph),
          current_tokens |-> 0]
    ELSE [chunks |-> st.chunks,
          current_chunk |-> Append(st.current_chunk, paragraph),
          current_tokens |-> st.current_tokens + paragraph_tokens]

\* lines 107-118: one iteration of the packing loop
PackStep(st, paragraph) ==
    LET paragraph_tokens == estimate_tokens(count_words(<<paragraph>>)) IN
    IF FlushNeeded(st.current_tokens, paragraph_tokens, st.current_chunk)
    THEN [chunks |-> Append(st.chunks, st.current_chunk),
          current_chunk |-> StartChunk(paragraph),
          current_tokens |-> paragraph_tokens]
    ELSE [chunks |-> st.chunks,
          current_chunk |-> Append(st.current_chunk, paragraph),
          current_tokens |-> st.current_tokens + paragraph_tokens]

RECURSIVE PackAll(_, _)
PackAll(st, paragraphs) ==
    IF paragraphs = <<>> THEN st
    ELSE PackAll(PackStep(st, Head(paragraphs)), Tail(paragraphs))

\* lines 87-124.  A chunk is the sequence of the units joined by "\n\n".
create_intelligent_chunks(t) ==
    LET st == PackAll([chunks |-> <<>>, current_chunk |-> <<>>,
                       current_tokens |-> 0], SemanticUnits(t)) IN
    IF st.current_chunk # <<>>
    THEN Append(st.chunks, st.current_chunk)
    ELSE st.chunks

\* ------------------------------------------------------------- budgeting
\* The table with 'low' and 'high' taken for the length of the summary
\* instead of the compression: the targets of the two swapped.
TargetWords_Swapped(level) ==
    IF level = "low" THEN 800
    ELSE IF level = "medium" THEN 2500
    ELSE 5000

\* lines 39-50
TargetWords(level) ==
    IF level = "low" THEN 5000
    ELSE IF level = "medium" THEN 2500
    ELSE 800

\* int(target_words / 1.3) for int(target_words * 1.3)
TargetTokens_Divides(level) == (TargetWords(level) * 10) \div 13

\* line 53: int(target_words * 1.3)
TargetTokens(level) == (TargetWords(level) * 13) \div 10

Min(a, b) == IF a <= b THEN a ELSE b

\* round half up for int(): min(round(chunk_tokens * 0.5), 4000)
target_output_tokens_Rounded(chunk) ==
    Min((estimate_tokens(count_words(chunk)) + 1) \div 2, MaxMapOutputTokens)

\* lines 131-133: min(int(chunk_tokens * 0.5), 4000)
target_output_tokens(chunk) ==
    Min(estimate_tokens(count_words(chunk)) \div 2, MaxMapOutputTokens)

\* The progress formula with round() for int().
MapProgress_Rounded(i, n) == 20 + (2 * (i + 1) * 60 + n) \div (2 * n)

\* The progress formula with the loop index off by one.
MapProgress_OffByOne(i, n) == 20 + ((i + 2) * 60) \div n

\* line 68, for the 0-based loop index i of n chunks:
\* 20 + int((i + 1) / len(chunks) * 60)
MapProgress(i, n) == 20 + ((i + 1) * 60) \div n

\* line 33
TokenRejected(tok) == tok = "" \/ tok = HARDCODED_PLACEHOLDER

\* ------------------------------------------------------------------- run
Emit(log, v) == Append(log, v)

\* ---------------------------------------- the parts that are not running
\* app.py's worker, constructed and not yet run
NoCopy ==
    app_worker = [pc |-> "start", target_tokens |-> 0, chunks |-> <<>>,
                  chunk_summaries |-> <<>>, calls |-> <<>>,
                  progress_log |-> <<>>, finished_log |-> <<>>,
                  error_log |-> <<>>]

\* no PdfTextExtractor
NoExtractor ==
    /\ pdf = [name |-> "none"]
    /\ extractor = [pc |-> "none"]
    /\ extractor_signals = <<>>

\* no PdfSummarizerApp
NoGui ==
    /\ gui_module = "none"
    /\ window = [created |-> FALSE]
    /\ threads = <<>>
    /\ event_queue = <<>>
    /\ gui_log = [handler |-> "none"]

NoRun ==
    /\ target_tokens = 0
    /\ chunks = <<>>
    /\ chunk_summaries = <<>>
    /\ calls = <<>>
    /\ progress_log = <<>>
    /\ finished_log = <<>>
    /\ error_log = <<>>
    /\ signal_log = <<>>
    /\ estimates = [words |-> 0, tokens |-> 0, words_back |-> 0, words_of_target |-> 0]

\* The state after __init__ (lines 18-26), run() not yet entered.
Init ==
    /\ text_to_summarize \in StringTexts(RunWordSizes, MaxRunSegs) \cup {NotAString}
    /\ summary_level \in Levels
    /\ api_token \in Tokens
    /\ pc = "start"
    /\ NoRun
    /\ NoCopy /\ NoExtractor /\ NoGui

\* The credential check without its return: the error is emitted and run()
\* goes on.
RunStart_NoReturn ==
    /\ pc = "start"
    /\ error_log' = IF TokenRejected(api_token)
                    THEN Emit(error_log, "Error: Replicate API Token is not correctly set.")
                    ELSE error_log
    /\ signal_log' = IF TokenRejected(api_token)
                     THEN signal_log \o <<"error", "progress">>
                     ELSE Emit(signal_log, "progress")
    /\ target_tokens' = TargetTokens(summary_level)
    /\ progress_log' = Emit(progress_log, 10)
    /\ pc' = "chunking"
    /\ UNCHANGED <<text_to_summarize, summary_level, api_token, chunks,
                   chunk_summaries, calls, finished_log, estimates>>
    /\ UNCHANGED <<copyVars, extractorVars, guiVars>>

\* lines 33-55: the credential check, the level's targets, progress 10
RunStart ==
    /\ pc = "start"
    /\ \/ /\ TokenRejected(api_token)
          /\ error_log' = Emit(error_log, "Error: Replicate API Token is not correctly set.")
          /\ signal_log' = Emit(signal_log, "error")
          /\ pc' = "done"
          /\ UNCHANGED <<target_tokens, progress_log>>
       \/ /\ ~TokenRejected(api_token)
          /\ target_tokens' = TargetTokens(summary_level)
          /\ progress_log' = Emit(progress_log, 10)
          /\ signal_log' = Emit(signal_log, "progress")
          /\ pc' = "chunking"
          /\ UNCHANGED error_log
    /\ UNCHANGED <<text_to_summarize, summary_level, api_token, chunks,
                   chunk_summaries, calls, finished_log, estimates>>
    /\ UNCHANGED <<copyVars, extractorVars, guiVars>>

\* The chunking step with progress 20 emitted before the planner is called:
\* a run whose planner raises has emitted 10 and 20.
Chunking_ProgressBeforePlanner ==
    /\ pc = "chunking"
    /\ progress_log' = Emit(progress_log, 20)
    /\ \/ /\ text_to_summarize.isStr
          /\ chunks' = create_intelligent_chunks(text_to_summarize)
          /\ signal_log' = Emit(signal_log, "progress")
          /\ pc' = "mapping"
          /\ UNCHANGED error_log
       \/ /\ ~text_to_summarize.isStr
          /\ error_log' = Emit(error_log, "Summarization error: expected string or bytes-like object")
          /\ signal_log' = Emit(Emit(signal_log, "progress"), "error")
          /\ pc' = "done"
          /\ UNCHANGED chunks
    /\ UNCHANGED <<text_to_summarize, summary_level, api_token, target_tokens,
                   chunk_summaries, calls, finished_log, estimates>>
    /\ UNCHANGED <<copyVars, extractorVars, guiVars>>

\* lines 58-59, and 84-85 when the planner raises
Chunking ==
    /\ pc = "chunking"
    /\ \/ /\ text_to_summarize.isStr
          /\ chunks' = create_intelligent_chunks(text_to_summarize)
          /\ progress_log' = Emit(progress_log, 20)
          /\ signal_log' = Emit(signal_log, "progress")
          /\ pc' = "mapping"
          /\ UNCHANGED error_log
       \/ /\ ~text_to_summarize.isStr
          /\ error_log' = Emit(error_log, "Summarization error: expected string or bytes-like object")
          /\ signal_log' = Emit(signal_log, "error")
          /\ pc' = "done"
          /\ UNCHANGED <<chunks, progress_log>>
    /\ UNCHANGED <<text_to_summarize, summary_level, api_token, target_tokens,
                   chunk_summaries, calls, finished_log, estimates>>
    /\ UNCHANGED <<copyVars, extractorVars, guiVars>>

\* lines 63-64 and 131-159: the loop takes the next chunk and _process_chunk
\* issues its completion call.  The loop index i is len(chunk_summaries).
MapIssue ==
    /\ pc = "mapping"
    /\ Len(chunk_summaries) < Len(chunks)
    /\ LET i == Len(chunk_summaries) IN
       calls' = Append(calls,
                  [stage |-> "map", chunk |-> i + 1,
                   max_completion_tokens |-> target_output_tokens(chunks[i + 1]),
                   sections |-> <<>>, prompt |-> <<>>, outcome |-> "pending"])
    /\ pc' = "map_call"
    /\ UNCHANGED <<text_to_summarize, summary_level, api_token, target_tokens,
                   chunks, chunk_summaries, progress_log, finished_log, error_log,
                   signal_log, estimates>>
    /\ UNCHANGED <<copyVars, extractorVars, guiVars>>

\* _process_chunk that lets the failure of the call out: run()'s handler
\* (lines 84-85) takes it.
ProcessChunkResult_Propagates(k, outcome) ==
    [chunk |-> k, kind |-> "summary", raised |-> outcome = "raised"]

\* lines 160-163: what _process_chunk returns for chunk k
ProcessChunkResult(k, outcome) ==
    [chunk |-> k,
     kind |-> IF outcome = "raised" THEN "error_marker" ELSE "summary",
     raised |-> FALSE]

SetOutcome(cs, outcome) == [cs EXCEPT ![Len(cs)].outcome = outcome]

\* The map loop collecting with insert(0, summary) for append(summary).
MapReturn_Prepend(outcome) ==
    /\ pc = "map_call"
    /\ calls' = SetOutcome(calls, outcome)
    /\ LET i == Len(chunk_summaries)
           r == ProcessChunkResult(i + 1, outcome) IN
       /\ chunk_summaries' = <<[chunk |-> r.chunk, kind |-> r.kind]>> \o chunk_summaries
       /\ progress_log' = Emit(progress_log, MapProgress(i, Len(chunks)))
    /\ signal_log' = Emit(signal_log, "progress")
    /\ pc' = "mapping"
    /\ UNCHANGED <<text_to_summarize, summary_level, api_token, target_tokens,
                   chunks, finished_log, error_log, estimates>>
    /\ UNCHANGED <<copyVars, extractorVars, guiVars>>

\* lines 160-163 and 65-69: the call returns or raises, the result is
\* appended, progress is emitted
MapReturn(outcome) ==
    /\ pc = "map_call"
    /\ calls' = SetOutcome(calls, outcome)
    /\ LET i == Len(chunk_summaries)
           r == ProcessChunkResult(i + 1, outcome) IN
       IF r.raised
       THEN /\ error_log' = Emit(error_log, "Summarization error: call failed")
            /\ signal_log' = Emit(signal_log, "error")
            /\ pc' = "done"
            /\ UNCHANGED <<chunk_summaries, progress_log>>
       ELSE /\ chunk_summaries' = Append(chunk_summaries, [chunk |-> r.chunk, kind |-> r.kind])
            /\ progress_log' = Emit(progress_log, MapProgress(i, Len(chunks)))
            /\ signal_log' = Emit(signal_log, "progress")
            /\ pc' = "mapping"
            /\ UNCHANGED error_log
    /\ UNCHANGED <<text_to_summarize, summary_level, api_token, target_tokens,
                   chunks, finished_log, estimates>>
    /\ UNCHANGED <<copyVars, extractorVars, guiVars>>

SECTION_DELIMITER == [chunk |-> 0, kind |-> "=== SECTION ==="]

\* line 171: "\n\n=== SECTION ===\n\n".join(chunk_summaries), as the
\* sequence of the summaries with the delimiter between neighbours
RECURSIVE JoinSections(_)
JoinSections(summaries) ==
    IF Len(summaries) <= 1 THEN summaries
    ELSE <<Head(summaries), SECTION_DELIMITER>> \o JoinSections(Tail(summaries))

\* The reduce stage entered from inside the map loop: it does not wait for
\* the last chunk.
SynthIssue_InsideLoop ==
    /\ pc = "mapping"
    /\ Len(chunk_summaries) >= 1
    /\ progress_log' = Emit(progress_log, 80)
    /\ signal_log' = Emit(signal_log, "progress")
    /\ calls' = Append(calls,
                  [stage |-> "reduce", chunk |-> 0,
                   max_completion_tokens |-> Min(target_tokens, MaxReduceOutputTokens),
                   sections |-> chunk_summaries,
                   prompt |-> JoinSections(chunk_summaries), outcome |-> "pending"])
    /\ estimates' = [estimates EXCEPT
                        !.words_of_target = estimate_words_from_tokens(target_tokens)]
    /\ pc' = "reduce_call"
    /\ UNCHANGED <<text_to_summarize, summary_level, api_token, target_tokens,
                   chunks, chunk_summaries, finished_log, error_log>>
    /\ UNCHANGED <<copyVars, extractorVars, guiVars>>

\* lines 71-79 and 171-204: progress 80, then _synthesize_final_summary
\* joins the summaries, writes the word target
\* estimate_words_from_tokens(target_tokens) into the prompt (line 184) and
\* issues the single reduce call
SynthIssue ==
    /\ pc = "mapping"
    /\ Len(chunk_summaries) = Len(chunks)
    /\ progress_log' = Emit(progress_log, 80)
    /\ signal_log' = Emit(signal_log, "progress")
    /\ calls' = Append(calls,
                  [stage |-> "reduce", chunk |-> 0,
                   max_completion_tokens |-> Min(target_tokens, MaxReduceOutputTokens),
                   sections |-> chunk_summaries,
                   prompt |-> JoinSections(chunk_summaries), outcome |-> "pending"])
    /\ estimates' = [estimates EXCEPT
                        !.words_of_target = estimate_words_from_tokens(target_tokens)]
    /\ pc' = "reduce_call"
    /\ UNCHANGED <<text_to_summarize, summary_level, api_token, target_tokens,
                   chunks, chunk_summaries, finished_log, error_log>>
    /\ UNCHANGED <<copyVars, extractorVars, guiVars>>

\* lines 205-207: what _synthesize_final_summary returns
SynthesisResult(sections, outcome) ==
    [kind |-> IF outcome = "raised" THEN "Error in final synthesis" ELSE "summary",
     sections |-> sections]

\* lines 205-207 and 81-82: the reduce call returns or raises; progress 100
\* and finished are emitted with what _synthesize_final_summary returned
SynthReturn(outcome) ==
    /\ pc = "reduce_call"
    /\ calls' = SetOutcome(calls, outcome)
    /\ progress_log' = Emit(progress_log, 100)
    /\ finished_log' = Emit(finished_log, SynthesisResult(chunk_summaries, outcome))
    /\ signal_log' = Emit(Emit(signal_log, "progress"), "finished")
    /\ pc' = "done"
    /\ UNCHANGED <<text_to_summarize, summary_level, api_token, target_tokens,
                   chunks, chunk_summaries, error_log, estimates>>
    /\ UNCHANGED <<copyVars, extractorVars, guiVars>>

Next ==
    \/ RunStart
    \/ Chunking
    \/ MapIssue
    \/ \E o \in Outcomes : MapReturn(o)
    \/ SynthIssue
    \/ \E o \in Outcomes : SynthReturn(o)

Spec == Init /\ [][Next]_vars

\* The state after __init__ for the runs checked under fairness.
InitFair ==
    /\ text_to_summarize \in StringTexts(RunWordSizes, MaxFairSegs) \cup {NotAString}
    /\ summary_level \in Levels
    /\ api_token \in Tokens
    /\ pc = "start"
    /\ NoRun
    /\ NoCopy /\ NoExtractor /\ NoGui

\* The worker thread keeps running and every completion call returns or
\* raises.
FairSpec == InitFair /\ [][Next]_vars /\ WF_vars(Next)

\* ------------------------------------------ runs over many chunks
\* A text of k sentences of 6200 words: every sentence is over the ceiling
\* and becomes a chunk of its own, so the run has k chunks.
OversizedSentences(k) ==
    [isStr |-> TRUE,
     segs |-> [j \in 1..k |-> [w |-> 6200, sep |-> "dot"]],
     long |-> k >= 1]

InitProgress ==
    /\ text_to_summarize \in {OversizedSentences(k) : k \in 0..MaxProgressChunks}
                              \cup {NotAString}
    /\ summary_level \in Levels
    /\ api_token \in {"", REAL_TOKEN}
    /\ pc = "start"
    /\ NoRun
    /\ NoCopy /\ NoExtractor /\ NoGui

SpecProgress == InitProgress /\ [][Next]_vars

\* ------------------------------------- runs over chunks of chosen sizes
InitBudget ==
    /\ text_to_summarize \in StringTexts(BudgetWordSizes, MaxBudgetSegs) \cup {NotAString}
    /\ summary_level \in Levels
    /\ api_token \in {"", REAL_TOKEN}
    /\ pc = "start"
    /\ NoRun
    /\ NoCopy /\ NoExtractor /\ NoGui

SpecBudget == InitBudget /\ [][Next]_vars

\* --------------------------------------------- the estimators on their own
\* A text of w words (no words: the empty string), and a token count.
InitEstimator ==
    /\ text_to_summarize \in StringTexts(1..MaxEstWords, 1)
    /\ target_tokens \in 0..MaxEstTokens
    /\ summary_level = "medium"
    /\ api_token = REAL_TOKEN
    /\ pc = "estimate"
    /\ chunks = <<>>
    /\ chunk_summaries = <<>>
    /\ calls = <<>>
    /\ progress_log = <<>>
    /\ finished_log = <<>>
    /\ error_log = <<>>
    /\ signal_log = <<>>
    /\ estimates = [words |-> 0, tokens |-> 0, words_back |-> 0, words_of_target |-> 0]
    /\ NoCopy /\ NoExtractor /\ NoGui

\* pdf_processor.py lines 8-27: count_words and estimate_tokens of the
\* text, estimate_words_from_tokens of that estimate and of target_tokens
Estimate ==
    /\ pc = "estimate"
    /\ LET words == count_words(text_to_summarize.segs)
           tokens == estimate_tokens(words) IN
       estimates' = [words |-> words,
                     tokens |-> tokens,
                     words_back |-> estimate_words_from_tokens(tokens),
                     words_of_target |-> estimate_words_from_tokens(target_tokens)]
    /\ pc' = "estimated"
    /\ UNCHANGED <<text_to_summarize, summary_level, api_token, target_tokens,
                   chunks, chunk_summaries, calls, progress_log, finished_log,
                   error_log, signal_log>>
    /\ UNCHANGED <<copyVars, extractorVars, guiVars>>

NextEstimator == Estimate

SpecEstimator == InitEstimator /\ [][NextEstimator]_vars

\* ------------------------------------------------ the planner on its own
InitPlanner ==
    /\ text_to_summarize \in StringTexts(WordSizes, MaxSegs)
    /\ summary_level = "medium"
    /\ api_token = REAL_TOKEN
    /\ pc = "plan"
    /\ NoRun
    /\ NoCopy /\ NoExtractor /\ NoGui

\* _create_intelligent_chunks(text) called on its own
PlanChunks ==
    /\ pc = "plan"
    /\ chunks' = create_intelligent_chunks(text_to_summarize)
    /\ pc' = "planned"
    /\ UNCHANGED <<text_to_summarize, summary_level, api_token, target_tokens,
                   chunk_summaries, calls, progress_log, finished_log, error_log,
                   signal_log, estimates>>
    /\ UNCHANGED <<copyVars, extractorVars, guiVars>>

NextPlanner == PlanChunks

SpecPlanner == InitPlanner /\ [][NextPlanner]_vars

\* ------------------------------------- app.py's copy of the worker
\* app.py lines 218-397.  The copy is run on the same text, level and
\* credential as summarizer.py's worker, once that one is done, and its k-th
\* completion call returns or raises as the k-th call of that run did.
MaxCopySegs == 2

\* app.py lines 292-297: paragraphs, or sentences when there are at most 2
\* paragraphs (the length of the text is not looked at)
AppSemanticUnits(t) ==
    LET paragraphs == Split(t.segs, ParaBreaks) IN
    IF Len(paragraphs) <= 2
    THEN Split(t.segs, SentBreaks)
    ELSE paragraphs

\* app.py lines 289-318: the packing loop is the one of summarizer.py
app_create_intelligent_chunks(t) ==
    LET st == PackAll([chunks |-> <<>>, current_chunk |-> <<>>,
                       current_tokens |-> 0], AppSemanticUnits(t)) IN
    IF st.current_chunk # <<>>
    THEN Append(st.chunks, st.current_chunk)
    ELSE st.chunks

InitCopies ==
    /\ text_to_summarize \in StringTexts(RunWordSizes, MaxCopySegs) \cup {NotAString}
    /\ summary_level \in Levels
    /\ api_token \in {"", REAL_TOKEN}
    /\ pc = "start"
    /\ NoRun
    /\ NoCopy /\ NoExtractor /\ NoGui

\* The outcomes the copy's next call may have: the outcome of the call at
\* the same position of summarizer.py's run, any outcome if there is none.
SameOutcome(outcome) ==
    LET k == Len(app_worker.calls) IN
    (k <= Len(calls) /\ calls[k].outcome # "pending") => outcome = calls[k].outcome

\* app.py lines 231-257: the credential check, the level's targets,
\* estimate_tokens(self.text_to_summarize) (which raises on a text that is
\* no string: lines 255 and 286-287), progress 10
AppRunStart ==
    /\ pc = "done"
    /\ app_worker.pc = "start"
    /\ app_worker' =
         IF TokenRejected(api_token)
         THEN [app_worker EXCEPT
                 !.pc = "done",
                 !.error_log = Emit(@, "Error: Replicate API Token is not correctly set.")]
         ELSE IF ~text_to_summarize.isStr
         THEN [app_worker EXCEPT
                 !.pc = "done",
                 !.error_log = Emit(@, "Summarization error: object has no attribute 'split'")]
         ELSE [app_worker EXCEPT
                 !.pc = "chunking",
                 !.target_tokens = TargetTokens(summary_level),
                 !.progress_log = Emit(@, 10)]
    /\ UNCHANGED <<runVars, extractorVars, guiVars>>

\* app.py lines 260-261
AppChunking ==
    /\ app_worker.pc = "chunking"
    /\ app_worker' = [app_worker EXCEPT
                        !.pc = "mapping",
                        !.chunks = app_create_intelligent_chunks(text_to_summarize),
                        !.progress_log = Emit(@, 20)]
    /\ UNCHANGED <<runVars, extractorVars, guiVars>>

\* app.py lines 265-266 and 320-352
AppMapIssue ==
    /\ app_worker.pc = "mapping"
    /\ Len(app_worker.chunk_summaries) < Len(app_worker.chunks)
    /\ LET i == Len(app_worker.chunk_summaries) IN
       app_worker' = [app_worker EXCEPT
                        !.pc = "map_call",
                        !.calls = Append(@,
                            [stage |-> "map", chunk |-> i + 1,
                             max_completion_tokens |->
                                 target_output_tokens(app_worker.chunks[i + 1]),
                             sections |-> <<>>, prompt |-> <<>>,
                             outcome |-> "pending"])]
    /\ UNCHANGED <<runVars, extractorVars, guiVars>>

\* app.py lines 353-355 and 266-271
AppMapReturn(outcome) ==
    /\ app_worker.pc = "map_call"
    /\ SameOutcome(outcome)
    /\ LET i == Len(app_worker.chunk_summaries)
           r == ProcessChunkResult(i + 1, outcome) IN
       app_worker' = [app_worker EXCEPT
                        !.pc = "mapping",
                        !.calls = SetOutcome(@, outcome),
                        !.chunk_summaries = Append(@, [chunk |-> r.chunk, kind |-> r.kind]),
                        !.progress_log = Emit(@, MapProgress(i, Len(app_worker.chunks)))]
    /\ UNCHANGED <<runVars, extractorVars, guiVars>>

\* app.py lines 273-281 and 357-394
AppSynthIssue ==
    /\ app_worker.pc = "mapping"
    /\ Len(app_worker.chunk_summaries) = Len(app_worker.chunks)
    /\ app_worker' = [app_worker EXCEPT
                        !.pc = "reduce_call",
                        !.progress_log = Emit(@, 80),
                        !.calls = Append(@,
                            [stage |-> "reduce", chunk |-> 0,
                             max_completion_tokens |->
                                 Min(app_worker.target_tokens, MaxReduceOutputTokens),
                             sections |-> app_worker.chunk_summaries,
                             prompt |-> JoinSections(app_worker.chunk_summaries),
                             outcome |-> "pending"])]
    /\ UNCHANGED <<runVars, extractorVars, guiVars>>

\* app.py lines 395-397 and 283-284
AppSynthReturn(outcome) ==
    /\ app_worker.pc = "reduce_call"
    /\ SameOutcome(outcome)
    /\ app_worker' = [app_worker EXCEPT
                        !.pc = "done",
                        !.calls = SetOutcome(@, outcome),
                        !.progress_log = Emit(@, 100),
                        !.finished_log =
                            Emit(@, SynthesisResult(app_worker.chunk_summaries, outcome))]
    /\ UNCHANGED <<runVars, extractorVars, guiVars>>

NextCopies ==
    \/ Next
    \/ AppRunStart
    \/ AppChunking
    \/ AppMapIssue
    \/ \E o \in Outcomes : AppMapReturn(o)
    \/ AppSynthIssue
    \/ \E o \in Outcomes : AppSynthReturn(o)

SpecCopies == InitCopies /\ [][NextCopies]_vars

\* ------------------------------------------------------- PdfTextExtractor
\* pdf_processor.py lines 47-49
MIN_WORDS == 500
MIN_PAGES == 1
MAX_EMPTY_PAGES_RATIO == [num |-> 7, den |-> 10]
\* lines 172 and 222
SubstantialChars == 100
MinAverageChars == 200

MaxPages == 4

\* What page.extract_text() does on a page: it raises, it returns nothing
\* (or whitespace only), or it returns text of so many words and characters
\* (clean: the characters left when whitespace is normalized).
RaisingPage == [result |-> "raises", words |-> 0, chars |-> 0, clean |-> 0]
BlankPage == [result |-> "blank", words |-> 0, chars |-> 0, clean |-> 0]
TextPage(w, c) == [result |-> "text", words |-> w, chars |-> c, clean |-> c]
PageKinds ==
    {RaisingPage, BlankPage, TextPage(1, 5), TextPage(250, 1500),
     TextPage(499, 3000), TextPage(500, 3000)}

\* A readable, unencrypted PDF file of the given pages.
GoodPdf(pages) ==
    [name |-> "a.pdf", extension |-> ".pdf", size |-> "ok", content |-> "pdf",
     pages_readable |-> TRUE, is_encrypted |-> FALSE, pages |-> pages]

\* k pages without text followed by n - k pages of w words and c characters
BlankThenText(k, n, w, c) ==
    GoodPdf([j \in 1..n |-> IF j <= k THEN BlankPage ELSE TextPage(w, c)])

OnePage == <<TextPage(500, 3000)>>

\* Files that fail before any page is read: a wrong extension, a size the
\* extractor refuses or a file it cannot stat, a file it cannot open, content
\* PyPDF2 rejects, a page tree it cannot read, an encrypted document.
BadPdfs ==
    {[GoodPdf(OnePage) EXCEPT !.extension = ".txt"]}
    \cup {[GoodPdf(OnePage) EXCEPT !.size = z] :
             z \in {"inaccessible", "empty", "small", "large"}}
    \cup {[GoodPdf(OnePage) EXCEPT !.content = c] : c \in {"unreadable", "corrupt"}}
    \cup {[GoodPdf(OnePage) EXCEPT !.pages_readable = FALSE]}
    \cup {[GoodPdf(pp) EXCEPT !.is_encrypted = TRUE] : pp \in {<<>>, OnePage}}

Pdfs ==
    {GoodPdf(pp) : pp \in UNION {[1..n -> PageKinds] : n \in 0..MaxPages}}
    \cup {BlankThenText(k, 10, 500, 3000) : k \in 0..10}
    \cup {BlankThenText(7, 10, 170, 340), BlankThenText(0, 11, 50, 99)}
    \cup BadPdfs

XSignal(name, value, message) ==
    [signal |-> name, value |-> value, message |-> message]

XEmit(name, value, message) ==
    extractor_signals' = Append(extractor_signals, XSignal(name, value, message))

XFail(message) ==
    /\ XEmit("validation_failed", 0, message)
    /\ extractor' = [extractor EXCEPT !.pc = "done"]

NoStats ==
    [total_pages |-> 0, pages_with_text |-> 0, pages_with_substantial_text |-> 0,
     empty_pages |-> 0, total_characters |-> 0]

\* The state after __init__ (lines 40-49), run() not yet entered.
InitExtractor ==
    /\ pdf \in Pdfs
    /\ extractor = [pc |-> "extension", page_num |-> 0,
                    text |-> [words |-> 0, chars |-> 0], stats |-> NoStats]
    /\ extractor_signals = <<>>
    /\ text_to_summarize = NotAString
    /\ summary_level = "medium"
    /\ api_token = REAL_TOKEN
    /\ pc = "none"
    /\ NoRun
    /\ NoCopy /\ NoGui

\* lines 58-59 and 93-101: _validate_file_extension
ValidateFileExtension ==
    /\ extractor.pc = "extension"
    /\ IF pdf.extension # ".pdf"
       THEN XFail("Invalid file format. Only PDF files are supported.")
       ELSE /\ extractor' = [extractor EXCEPT !.pc = "size"]
            /\ UNCHANGED extractor_signals
    /\ UNCHANGED <<pdf, runVars, copyVars, guiVars>>

\* lines 103-122: the verdict of _validate_file_size, "" when it passes
FileSizeVerdict(size) ==
    IF size = "inaccessible" THEN "Cannot access file"
    ELSE IF size = "empty" THEN "File is empty. Please select a valid PDF file."
    ELSE IF size = "small" THEN "File is too small to contain meaningful content."
    ELSE IF size = "large" THEN "File is too large (>100MB)."
    ELSE ""

\* lines 62-63 and 103-122: _validate_file_size
ValidateFileSize ==
    /\ extractor.pc = "size"
    /\ IF FileSizeVerdict(pdf.size) # ""
       THEN XFail(FileSizeVerdict(pdf.size))
       ELSE /\ extractor' = [extractor EXCEPT !.pc = "read"]
            /\ UNCHANGED extractor_signals
    /\ UNCHANGED <<pdf, runVars, copyVars, guiVars>>

\* lines 66-70, and 86-91 when open() or PdfReader raises
ReadPdf ==
    /\ extractor.pc = "read"
    /\ IF pdf.content = "corrupt"
       THEN XFail("Invalid PDF file or corrupted content.")
       ELSE IF pdf.content = "unreadable"
       THEN XFail("Error processing PDF: cannot open")
       ELSE /\ extractor' = [extractor EXCEPT !.pc = "structure"]
            /\ UNCHANGED extractor_signals
    /\ UNCHANGED <<pdf, runVars, copyVars, guiVars>>

\* lines 128-143: the verdict of _validate_pdf_structure, "" when it passes
StructureVerdict(f) ==
    IF ~f.pages_readable THEN "Cannot read PDF structure"
    ELSE IF Len(f.pages) < MIN_PAGES THEN "PDF must have at least 1 page(s)."
    ELSE IF f.is_encrypted THEN "PDF is password-protected."
    ELSE ""

\* lines 73-74 and 124-143: _validate_pdf_structure; on success the locals
\* of _extract_and_validate_text are set up (lines 150-159)
ValidatePdfStructure ==
    /\ extractor.pc = "structure"
    /\ IF StructureVerdict(pdf) # ""
       THEN XFail(StructureVerdict(pdf))
       ELSE /\ extractor' = [extractor EXCEPT
                               !.pc = "extract",
                               !.page_num = 0,
                               !.stats = [NoStats EXCEPT !.total_pages = Len(pdf.pages)]]
            /\ UNCHANGED extractor_signals
    /\ UNCHANGED <<pdf, runVars, copyVars, guiVars>>

\* The page statistics with the failed extractions left out of empty_pages
\* (line 185 missing).
PageStats_RaisedNotEmpty(stats, page) ==
    IF page.result = "text"
    THEN [stats EXCEPT
            !.pages_with_text = @ + 1,
            !.pages_with_substantial_text =
                IF page.clean > SubstantialChars THEN @ + 1 ELSE @,
            !.total_characters = @ + page.chars + 2]
    ELSE IF page.result = "blank"
    THEN [stats EXCEPT !.empty_pages = @ + 1]
    ELSE stats

\* lines 162-185: the statistics after one page; the text grows by the
\* page's text and "\n\n"
PageStats(stats, page) ==
    IF page.result = "text"
    THEN [stats EXCEPT
            !.pages_with_text = @ + 1,
            !.pages_with_substantial_text =
                IF page.clean > SubstantialChars THEN @ + 1 ELSE @,
            !.total_characters = @ + page.chars + 2]
    ELSE [stats EXCEPT !.empty_pages = @ + 1]

\* line 179: int((page_num + 1) / total_pages * 80)
PageProgress(page_num, total_pages) == ((page_num + 1) * 80) \div total_pages

\* lines 161-185: one iteration of the page loop.  A page whose extraction
\* raises emits no progress.
ExtractPage ==
    /\ extractor.pc = "extract"
    /\ extractor.page_num < extractor.stats.total_pages
    /\ LET page == pdf.pages[extractor.page_num + 1] IN
       /\ extractor' = [extractor EXCEPT
                          !.page_num = @ + 1,
                          !.text = [words |-> @.words + page.words,
                                    chars |-> IF page.result = "text"
                                              THEN @.chars + page.chars + 2
                                              ELSE @.chars],
                          !.stats = PageStats(@, page)]
       /\ IF page.result = "raises"
          THEN UNCHANGED extractor_signals
          ELSE XEmit("progress",
                     PageProgress(extractor.page_num, extractor.stats.total_pages), "")
    /\ UNCHANGED <<pdf, runVars, copyVars, guiVars>>

\* lines 211-212: stats['empty_pages'] / stats['total_pages'] > 0.7
TooManyEmptyPages(stats) ==
    stats.empty_pages * MAX_EMPTY_PAGES_RATIO.den
        > MAX_EMPTY_PAGES_RATIO.num * stats.total_pages

\* lines 199-224: the verdict of _validate_extracted_text, "" when it passes
TextVerdict(text, stats) ==
    IF text.words = 0 THEN "No text could be extracted from this PDF."
    ELSE IF text.words < MIN_WORDS
    THEN "PDF contains insufficient text for summarization."
    ELSE IF TooManyEmptyPages(stats) THEN "Too many pages without text."
    ELSE IF stats.pages_with_substantial_text = 0 /\ stats.total_pages > 0
    THEN "No pages contain substantial text content."
    ELSE IF stats.total_characters < MinAverageChars * stats.total_pages
            /\ stats.total_pages > 0
    THEN "Average text per page is too low."
    ELSE ""

\* _validate_extracted_text without the return after validation_failed: the
\* run goes on to progress 100 and finished.
ValidateExtractedText_NoReturn ==
    /\ extractor.pc = "extract"
    /\ extractor.page_num = extractor.stats.total_pages
    /\ LET verdict == TextVerdict(extractor.text, extractor.stats) IN
       extractor_signals' = extractor_signals
            \o <<XSignal("progress", 85, "")>>
            \o (IF verdict # "" THEN <<XSignal("validation_failed", 0, verdict)>>
                ELSE <<>>)
            \o <<XSignal("progress", 100, ""),
                 XSignal("finished", extractor.text.words, pdf.name)>>
    /\ extractor' = [extractor EXCEPT !.pc = "done"]
    /\ UNCHANGED <<pdf, runVars, copyVars, guiVars>>

\* lines 77-84 and 192-227: the page loop is over; progress 85, then
\* validation_failed with the verdict, or progress 100 and
\* finished(basename, text.strip())
ValidateExtractedText ==
    /\ extractor.pc = "extract"
    /\ extractor.page_num = extractor.stats.total_pages
    /\ LET verdict == TextVerdict(extractor.text, extractor.stats) IN
       extractor_signals' = extractor_signals
            \o <<XSignal("progress", 85, "")>>
            \o (IF verdict # "" THEN <<XSignal("validation_failed", 0, verdict)>>
                ELSE <<XSignal("progress", 100, ""),
                       XSignal("finished", extractor.text.words, pdf.name)>>)
    /\ extractor' = [extractor EXCEPT !.pc = "done"]
    /\ UNCHANGED <<pdf, runVars, copyVars, guiVars>>

NextExtractor ==
    \/ ValidateFileExtension
    \/ ValidateFileSize
    \/ ReadPdf
    \/ ValidatePdfStructure
    \/ ExtractPage
    \/ ValidateExtractedText

SpecExtractor == InitExtractor /\ [][NextExtractor]_vars

\* The extractor's thread keeps running until run() returns.
FairSpecExtractor == InitExtractor /\ [][NextExtractor]_vars /\ WF_vars(NextExtractor)

\* ------------------------------------------------------ PdfSummarizerApp
\* main.py lines 11-386 and its copy app.py lines 400-728 (the same
\* handlers).  Handlers run one at a time on the GUI thread; a worker's
\* signal is queued for the GUI thread and its handler runs when the event
\* loop takes it.  A worker thread is abstracted to the one terminal signal
\* its run() emits; progress signals only move the progress bar.  The
\* summary level read from the radio buttons is left out.
MaxUserActions == 4

GuiModules == {"main.py", "app.py"}

\* The files the user can pick: two documents, a scanned document without
\* text, and a file that is gone when it is opened.
DocFiles == {"a.pdf", "b.pdf"}
GuiFiles == DocFiles \cup {"scan.pdf", "gone.pdf"}

TextOf(file) == IF file = "a.pdf" THEN "text of a.pdf" ELSE "text of b.pdf"

\* main.py lines 206-238: _pre_validate_file.  main.py does not import os
\* (lines 1-8), so os.path.exists at line 213 raises NameError, which the
\* handler at line 236 turns into False for every file; app.py imports os
\* (line 4).
pre_validate_file(module, file) ==
    module = "app.py" /\ file # "gone.pdf"

TextArea(kind, of) == [kind |-> kind, of |-> of]

\* main.py lines 17-26 and 28-145: __init__ and setup_ui
NewWindow ==
    [created |-> TRUE,
     extracted_pdf_text |-> "",
     current_filename |-> "",
     file_path_input |-> "No file selected",
     summary_textarea |-> TextArea("placeholder", ""),
     output_filename_input |-> "enhanced_summary.txt",
     summarize_btn |-> FALSE,
     save_file_button |-> FALSE,
     progress_bar_visible |-> FALSE,
     crashed |-> FALSE]

NoHandler ==
    [handler |-> "none", arg |-> "", result |-> "", user_actions |-> 0,
     summary_finished |-> ""]

\* REPLICATE_API_TOKEN (config.py line 22) is what the environment holds.
InitGui ==
    /\ gui_module \in GuiModules
    /\ window = NewWindow
    /\ threads = <<>>
    /\ event_queue = <<>>
    /\ gui_log = NoHandler
    /\ api_token \in {"", REAL_TOKEN}
    /\ text_to_summarize = NotAString
    /\ summary_level = "low"
    /\ pc = "none"
    /\ NoRun
    /\ NoCopy /\ NoExtractor

UserHandlers == {"open_file_dialog", "summarize_pdf", "save_summary_to_file"}

\* The handler that ran last with its argument and result, the number of
\* user actions handled, and the payload of the last finished signal of a
\* summarizer ("" while there is none).
Handled(handler, arg, result) ==
    gui_log' = [handler |-> handler, arg |-> arg, result |-> result,
                user_actions |-> IF handler \in UserHandlers
                                 THEN gui_log.user_actions + 1
                                 ELSE gui_log.user_actions,
                summary_finished |-> IF handler = "handle_summary_finished"
                                     THEN arg
                                     ELSE gui_log.summary_finished]

GuiRuns == window.created /\ ~window.crashed

UserCanAct == GuiRuns /\ gui_log.user_actions < MaxUserActions

\* The threads of one worker class whose QThread has not finished: the
\* worker runs, or its signal waits in the GUI thread's queue.
Unfinished(worker) ==
    {t \in DOMAIN threads : threads[t].worker = worker /\ threads[t].status # "finished"}

\* Rebinding self.extractor_thread or self.summarizer_thread (lines 188,
\* 322) while the QThread it held still runs drops the last reference to
\* it: Qt aborts the process ("QThread: Destroyed while thread is still
\* running") unless the object outlives the rebinding.
RebindOutcomes(worker) ==
    IF Unfinished(worker) = {} THEN {"runs"} ELSE {"runs", "aborts"}

StartThread(worker, input) ==
    threads' = Append(threads, [worker |-> worker, input |-> input, status |-> "running"])

\* main.py lines 163-204: the user picks a file in the dialog
open_file_dialog(file) ==
    /\ UserCanAct
    /\ IF ~pre_validate_file(gui_module, file)
       THEN /\ Handled("open_file_dialog", file, "rejected")
            /\ UNCHANGED <<window, threads>>
       ELSE \E outcome \in RebindOutcomes("PdfTextExtractor") :
              /\ window' = [window EXCEPT
                              !.file_path_input = file,
                              !.summary_textarea = TextArea("extracting", ""),
                              !.summarize_btn = FALSE,
                              !.save_file_button = FALSE,
                              !.progress_bar_visible = TRUE,
                              !.crashed = (outcome = "aborts")]
              /\ IF outcome = "aborts"
                 THEN UNCHANGED threads
                 ELSE StartThread("PdfTextExtractor", file)
              /\ Handled("open_file_dialog", file, outcome)
    /\ UNCHANGED <<event_queue, gui_module, runVars, copyVars, extractorVars>>

\* main.py lines 297-336: the user clicks the (enabled) summarize button
summarize_pdf ==
    /\ UserCanAct
    /\ window.summarize_btn
    /\ IF window.extracted_pdf_text = ""
       THEN /\ Handled("summarize_pdf", "", "rejected")
            /\ UNCHANGED <<window, threads>>
       ELSE \E outcome \in RebindOutcomes("ReplicateSummarizerWorker") :
              /\ window' = [window EXCEPT
                              !.summary_textarea = TextArea("generating", ""),
                              !.summarize_btn = FALSE,
                              !.save_file_button = FALSE,
                              !.progress_bar_visible = TRUE,
                              !.crashed = (outcome = "aborts")]
              /\ IF outcome = "aborts"
                 THEN UNCHANGED threads
                 ELSE StartThread("ReplicateSummarizerWorker", window.extracted_pdf_text)
              /\ Handled("summarize_pdf", window.extracted_pdf_text, outcome)
    /\ UNCHANGED <<event_queue, gui_module, runVars, copyVars, extractorVars>>

\* main.py lines 359-380: the user clicks the (enabled) save button
save_summary_to_file ==
    /\ UserCanAct
    /\ window.save_file_button
    /\ IF window.summary_textarea.kind \in {"placeholder", "error"}
       THEN Handled("save_summary_to_file", "", "rejected")
       ELSE Handled("save_summary_to_file", window.summary_textarea.of,
                    window.output_filename_input)
    /\ UNCHANGED <<window, threads, event_queue, gui_module, runVars, copyVars,
                   extractorVars>>

Queued(t, signal, arg, filename) ==
    /\ event_queue' = Append(event_queue,
                         [thread |-> t, signal |-> signal, arg |-> arg,
                          filename |-> filename])
    /\ threads' = [threads EXCEPT ![t].status = "emitted"]

\* pdf_processor.py lines 51-91: a PdfTextExtractor thread runs to its one
\* terminal signal, finished(filename, text) or validation_failed(message)
ExtractorThreadRun(t) ==
    /\ GuiRuns
    /\ threads[t].worker = "PdfTextExtractor"
    /\ threads[t].status = "running"
    /\ IF threads[t].input \in DocFiles
       THEN Queued(t, "finished", TextOf(threads[t].input), threads[t].input)
       ELSE Queued(t, "validation_failed", "No text could be extracted from this PDF.",
                   threads[t].input)
    /\ UNCHANGED <<window, gui_log, gui_module, runVars, copyVars, extractorVars>>

\* summarizer.py lines 28-85: a ReplicateSummarizerWorker thread runs to its
\* one terminal signal, error(message) for a rejected credential, else
\* finished(summary of its text)
SummarizerThreadRun(t) ==
    /\ GuiRuns
    /\ threads[t].worker = "ReplicateSummarizerWorker"
    /\ threads[t].status = "running"
    /\ IF TokenRejected(api_token)
       THEN Queued(t, "error", "Error: Replicate API Token is not correctly set.", "")
       ELSE Queued(t, "finished", threads[t].input, "")
    /\ UNCHANGED <<window, gui_log, gui_module, runVars, copyVars, extractorVars>>

\* The event loop takes the first queued signal of the given worker class;
\* the signal's second connection (lines 199-201, 332-333) quits the thread.
Taken(worker, signal) ==
    /\ GuiRuns
    /\ event_queue # <<>>
    /\ threads[Head(event_queue).thread].worker = worker
    /\ Head(event_queue).signal = signal
    /\ event_queue' = Tail(event_queue)
    /\ threads' = [threads EXCEPT ![Head(event_queue).thread].status = "finished"]

\* main.py lines 240-265
handle_pdf_extracted ==
    /\ Taken("PdfTextExtractor", "finished")
    /\ LET e == Head(event_queue) IN
       /\ window' = [window EXCEPT
                       !.extracted_pdf_text = e.arg,
                       !.current_filename = e.filename,
                       !.summary_textarea = TextArea("extracted", e.filename),
                       !.output_filename_input = e.filename,
                       !.summarize_btn = TRUE,
                       !.save_file_button = FALSE,
                       !.progress_bar_visible = FALSE]
       /\ Handled("handle_pdf_extracted", e.filename, "")
    /\ UNCHANGED <<gui_module, runVars, copyVars, extractorVars>>

\* main.py lines 278-295
handle_validation_failed ==
    /\ Taken("PdfTextExtractor", "validation_failed")
    /\ LET e == Head(event_queue) IN
       /\ window' = [window EXCEPT
                       !.summary_textarea = TextArea("validation_failed", e.arg),
                       !.summarize_btn = FALSE,
                       !.save_file_button = FALSE,
                       !.progress_bar_visible = FALSE,
                       !.file_path_input = "No valid file selected"]
       /\ Handled("handle_validation_failed", e.filename, "")
    /\ UNCHANGED <<gui_module, runVars, copyVars, extractorVars>>

\* main.py lines 338-346
handle_summary_finished ==
    /\ Taken("ReplicateSummarizerWorker", "finished")
    /\ LET e == Head(event_queue) IN
       /\ window' = [window EXCEPT
                       !.summary_textarea = TextArea("summary", e.arg),
                       !.summarize_btn = TRUE,
                       !.save_file_button = TRUE,
                       !.progress_bar_visible = FALSE]
       /\ Handled("handle_summary_finished", e.arg, "")
    /\ UNCHANGED <<gui_module, runVars, copyVars, extractorVars>>

\* handle_summary_error with the buttons of handle_summary_finished.
handle_summary_error_SaveEnabled ==
    /\ Taken("ReplicateSummarizerWorker", "error")
    /\ LET e == Head(event_queue) IN
       /\ window' = [window EXCEPT
                       !.summary_textarea = TextArea("error", e.arg),
                       !.summarize_btn = TRUE,
                       !.save_file_button = TRUE,
                       !.progress_bar_visible = FALSE]
       /\ Handled("handle_summary_error", e.arg, "")
    /\ UNCHANGED <<gui_module, runVars, copyVars, extractorVars>>

\* main.py lines 348-357
handle_summary_error ==
    /\ Taken("ReplicateSummarizerWorker", "error")
    /\ LET e == Head(event_queue) IN
       /\ window' = [window EXCEPT
                       !.summary_textarea = TextArea("error", e.arg),
                       !.summarize_btn = TRUE,
                       !.save_file_button = FALSE,
                       !.progress_bar_visible = FALSE]
       /\ Handled("handle_summary_error", e.arg, "")
    /\ UNCHANGED <<gui_module, runVars, copyVars, extractorVars>>

\* handle_pdf_error (lines 267-276) is connected to the extractor's error
\* signal, which PdfTextExtractor never emits.
NextGui ==
    \/ \E f \in GuiFiles : open_file_dialog(f)
    \/ summarize_pdf
    \/ save_summary_to_file
    \/ \E t \in DOMAIN threads : ExtractorThreadRun(t)
    \/ \E t \in DOMAIN threads : SummarizerThreadRun(t)
    \/ handle_pdf_extracted
    \/ handle_validation_failed
    \/ handle_summary_finished
    \/ handle_summary_error

SpecGui == InitGui /\ [][NextGui]_vars

\* ----------------------------------------------------------------- claims
Finished == finished_log # <<>>
Errored == error_log # <<>>
ReduceCalls == {j \in DOMAIN calls : calls[j].stage = "reduce"}
MapCalls == {j \in DOMAIN calls : calls[j].stage = "map"}
ReduceRaised == \E j \in ReduceCalls : calls[j].outcome = "raised"
ReduceReturned == \E j \in ReduceCalls : calls[j].outcome = "returned"
MapRaised(k) == \E j \in MapCalls : calls[j].chunk = k /\ calls[j].outcome = "raised"
MapReturned(k) == \E j \in MapCalls : calls[j].chunk = k /\ calls[j].outcome = "returned"

\* C1: if the reduce-stage completion call raises, the run ends Failed: the
\* error signal is emitted and the finished signal never is.
C1_ReduceFailureFailsRun ==
    (pc = "done" /\ ReduceRaised) => (Errored /\ ~Finished)

\* C2: a run that fails (rejected credential, planner exception, failed
\* reduce call) never emits the progress value 100.
C2_FailedRunNeverEmits100 ==
    (Errored \/ ReduceRaised) => \A k \in DOMAIN progress_log : progress_log[k] # 100

TokenIsPlaceholder(tok) ==
    tok \in {"", HARDCODED_PLACEHOLDER, CONFIG_DEFAULT_TOKEN}

\* C3: a run started with an empty or placeholder credential (config.py's
\* default included) ends with the configuration error, emits no progress,
\* does no chunking and issues no completion call.
C3_PlaceholderCredentialRejected ==
    (pc # "start" /\ TokenIsPlaceholder(api_token)) =>
        /\ pc = "done"
        /\ error_log = <<"Error: Replicate API Token is not correctly set.">>
        /\ progress_log = <<>>
        /\ chunks = <<>>
        /\ calls = <<>>

EmptyText == text_to_summarize.isStr /\ text_to_summarize.segs = <<>>

\* C4: empty (or whitespace-only) text with a valid credential fails the run
\* at once: no completion call, no finished signal, an error reason.
C4_EmptyTextFailsRun ==
    (api_token = REAL_TOKEN /\ EmptyText /\ pc # "start") =>
        /\ calls = <<>>
        /\ ~Finished
        /\ (pc = "done" => Errored)

\* C5: map-stage failures never abort the run: whatever map calls raise,
\* no error is emitted during mapping, the reduce call is issued with
\* exactly N summaries, an error marker standing at the index of each failed
\* chunk, and a run whose reduce call returned has emitted finished and not
\* error.
C5_MapFailuresNeverAbort ==
    /\ pc \in {"mapping", "map_call", "reduce_call"} => ~Errored
    /\ (pc = "done" /\ MapCalls # {}) => ReduceCalls # {}
    /\ \A j \in ReduceCalls :
         /\ Len(calls[j].sections) = Len(chunks)
         /\ \A k \in 1..Len(chunks) :
              /\ calls[j].sections[k].chunk = k
              /\ MapRaised(k) \/ MapReturned(k)
              /\ calls[j].sections[k].kind = "error_marker" <=> MapRaised(k)
              /\ calls[j].sections[k].kind = "summary" <=> MapReturned(k)
    /\ ReduceReturned => (Finished /\ ~Errored)

\* C5's case: two chunks or more, the first map call raised, a later one
\* returned, the reduce call returned and the run is done.
C5_Witness ==
    /\ pc = "done"
    /\ Len(chunks) >= 2
    /\ MapRaised(1)
    /\ MapReturned(2)
    /\ ReduceReturned
    /\ Finished

\* C6: every emitted progress value is an integer in [0,100], the emitted
\* sequence is non-decreasing, and a run that emitted finished emitted 100
\* last.
C6_ProgressMonotone ==
    /\ \A k \in DOMAIN progress_log : progress_log[k] \in 0..100
    /\ \A k \in 1..(Len(progress_log) - 1) : progress_log[k] <= progress_log[k + 1]
    /\ Finished => progress_log[Len(progress_log)] = 100

\* C6's case: a finished run over three chunks or more with a failed map
\* call.
C6_Witness ==
    /\ pc = "done"
    /\ Finished
    /\ Len(chunks) >= 3
    /\ MapRaised(2)
    /\ Len(progress_log) = Len(chunks) + 4

OutcomeCount == Len(finished_log) + Len(error_log)

\* C7: every started run eventually delivers exactly one terminal outcome
\* (finished or error, never both, never neither), and no progress value is
\* emitted after it.
C7_ExactlyOneTerminalOutcome ==
    /\ [](OutcomeCount <= 1)
    /\ <>(OutcomeCount = 1)
    /\ [][OutcomeCount >= 1 => progress_log' = progress_log]_vars

\* C7's case: a run over at least one chunk that has delivered finished.
C7_Witness ==
    /\ pc = "done"
    /\ Len(chunks) >= 1
    /\ OutcomeCount = 1
    /\ Finished

\* C8: every returned chunk of more than one unit has an estimated token
\* count (estimate_tokens of the chunk text) of at most 8000.
C8_MultiUnitChunkWithinCeiling ==
    \A k \in DOMAIN chunks :
        Len(chunks[k]) > 1 => estimate_tokens(count_words(chunks[k])) <= max_chunk_tokens

RECURSIVE Flatten(_)
Flatten(cs) == IF cs = <<>> THEN <<>> ELSE Head(cs) \o Flatten(Tail(cs))

\* C9: the returned chunks partition the sequence of semantic units: the
\* units of chunk 1, chunk 2, ... read in order are exactly the source units
\* in order, the units cover the text's segments contiguously, and every
\* chunk holds at least one unit.
C9_ChunksPartitionUnits ==
    pc = "planned" =>
        LET units == Flatten(chunks) IN
        /\ units = SemanticUnits(text_to_summarize)
        /\ \A k \in DOMAIN chunks : chunks[k] # <<>>
        /\ \A u \in DOMAIN units :
             /\ units[u].first = (IF u = 1 THEN 1 ELSE units[u - 1].last + 1)
             /\ units[u].first <= units[u].last
        /\ units # <<>> => units[Len(units)].last = Len(text_to_summarize.segs)
        /\ units = <<>> => text_to_summarize.segs = <<>>

\* C9's case: a plan of two chunks or more, one of them of several units.
C9_Witness ==
    /\ pc = "planned"
    /\ Len(chunks) >= 2
    /\ \E k \in DOMAIN chunks : Len(chunks[k]) >= 2

OverCeiling(chunk) == estimate_tokens(count_words(chunk)) > max_chunk_tokens

\* C10 as stated: among the chunks of one planner call at most one exceeds
\* the 8000-token ceiling.
C10_AtMostOneChunkOverCeiling ==
    Cardinality({k \in DOMAIN chunks : OverCeiling(chunks[k])}) <= 1

\* The running total the planner compares with the ceiling: the sum of the
\* units' own estimates (current_tokens).
RECURSIVE RunningTokens(_)
RunningTokens(chunk) ==
    IF chunk = <<>> THEN 0
    ELSE estimate_tokens(count_words(<<Head(chunk)>>)) + RunningTokens(Tail(chunk))

\* C10 amended: a chunk whose running token total exceeds 8000 is a single
\* oversized unit kept whole, and there is one such chunk per oversized
\* unit of the text (so there may be several).
C10_OverTotalIsSingleOversizedUnit ==
    pc = "planned" =>
        LET units == SemanticUnits(text_to_summarize) IN
        /\ \A k \in DOMAIN chunks :
             RunningTokens(chunks[k]) > max_chunk_tokens => Len(chunks[k]) = 1
        /\ Cardinality({k \in DOMAIN chunks : RunningTokens(chunks[k]) > max_chunk_tokens})
             = Cardinality({u \in DOMAIN units : OverCeiling(<<units[u]>>)})

\* C10's case: two chunks of one plan are over the ceiling.
C10_Witness ==
    /\ pc = "planned"
    /\ Cardinality({k \in DOMAIN chunks : RunningTokens(chunks[k]) > max_chunk_tokens}) >= 2

Paragraphs == Split(text_to_summarize.segs, ParaBreaks)
Sentences == Split(text_to_summarize.segs, SentBreaks)

\* C11 as stated: a document of exactly one paragraph (no blank-line
\* separator) gives exactly one chunk, whatever its size.
C11_OneParagraphOneChunk ==
    (pc = "planned" /\ Len(Paragraphs) = 1) => Len(chunks) = 1

\* C11 amended: a document of exactly one paragraph that is at most 500
\* characters long, or that holds a single sentence, is one semantic unit
\* and gives exactly one chunk of that one unit, whatever its size.
C11_OneUnitOneChunk ==
    (/\ pc = "planned"
     /\ Len(Paragraphs) = 1
     /\ (~text_to_summarize.long \/ Len(Sentences) = 1)) =>
        /\ Len(chunks) = 1
        /\ Len(chunks[1]) = 1
        /\ count_words(chunks[1]) = SumWords(text_to_summarize.segs)

\* C11's case: a one-sentence paragraph over the ceiling, planned as one
\* chunk.
C11_Witness ==
    /\ pc = "planned"
    /\ Len(Paragraphs) = 1
    /\ Len(Sentences) = 1
    /\ Len(chunks) = 1
    /\ OverCeiling(chunks[1])

\* C12: the planner's units are the sentences exactly when the blank-line
\* split yields at most 2 paragraphs and the text is longer than 500
\* characters; in every other case they are the paragraphs.
C12_SentenceFallbackExactlyWhen ==
    pc = "planned" =>
        Flatten(chunks) = (IF Len(Paragraphs) <= 2 /\ text_to_summarize.long
                           THEN Sentences
                           ELSE Paragraphs)

\* C12's case: two paragraphs in a long text, planned by sentences that
\* differ from the paragraphs.
C12_Witness ==
    /\ pc = "planned"
    /\ Len(Paragraphs) = 2
    /\ text_to_summarize.long
    /\ Sentences # Paragraphs
    /\ Flatten(chunks) = Sentences

PassedChunking == Len(progress_log) >= 2

\* C13: in a run that passed the credential check and chunking with N
\* chunks, the k-th completion call is the map call of chunk k, a call is
\* issued only when every earlier one has returned or raised (at most one
\* is outstanding, the latest), the single reduce call is call N+1, and a
\* finished run has issued exactly N map calls and one reduce call.
C13_CallsStrictlySequential ==
    /\ \A j \in DOMAIN calls : calls[j].outcome = "pending" => j = Len(calls)
    /\ \A j \in MapCalls : calls[j].chunk = j /\ j <= Len(chunks)
    /\ \A j \in ReduceCalls : j = Len(chunks) + 1 /\ j = Len(calls)
    /\ (pc = "done" /\ PassedChunking) =>
         /\ Len(calls) = Len(chunks) + 1
         /\ Cardinality(MapCalls) = Len(chunks)
         /\ Cardinality(ReduceCalls) = 1

\* C13's case: a finished run over two chunks or more: N map calls, one
\* of them failed, then the reduce call.
C13_Witness ==
    /\ pc = "done"
    /\ Len(chunks) >= 2
    /\ Cardinality(MapCalls) = Len(chunks)
    /\ MapRaised(2)
    /\ calls[Len(calls)].stage = "reduce"

CompletedMapCalls == {j \in MapCalls : calls[j].outcome # "pending"}

\* C14: at every point of the map stage the collected summaries are
\* index-aligned with the chunks: after i chunks there are exactly i
\* entries, entry k is the result (or error marker) of the call made for
\* chunk k, and the reduce stage joins all N entries in chunk order with
\* the section delimiter between them.
C14_SummariesIndexAligned ==
    /\ Len(chunk_summaries) = Cardinality(CompletedMapCalls)
    /\ Len(chunk_summaries) <= Len(chunks)
    /\ \A k \in DOMAIN chunk_summaries :
         /\ chunk_summaries[k].chunk = k
         /\ chunk_summaries[k].kind = "error_marker" <=> MapRaised(k)
         /\ chunk_summaries[k].kind = "summary" <=> MapReturned(k)
    /\ \A j \in ReduceCalls :
         LET p == calls[j].prompt
             n == Len(chunks) IN
         /\ Len(p) = (IF n = 0 THEN 0 ELSE 2 * n - 1)
         /\ \A k \in 1..n : p[2 * k - 1] = chunk_summaries[k]
         /\ \A k \in 1..(n - 1) : p[2 * k] = SECTION_DELIMITER

\* C14's case: in the middle of the map stage, two chunks processed (the
\* first failed, the second returned) and a third call outstanding.
C14_Witness ==
    /\ pc = "map_call"
    /\ Len(chunk_summaries) = 2
    /\ MapRaised(1)
    /\ MapReturned(2)

\* 10, 20, then 20 + floor(60 i / n) for i = 1..n, then 80, then 100
ExpectedProgress(n) ==
    <<10, 20>> \o [i \in 1..n |-> 20 + (60 * i) \div n] \o <<80, 100>>

\* C15: a successful run over N >= 1 chunks emits exactly the progress
\* sequence 10, 20, 20 + floor(60 i / N) for i = 1..N, 80, 100 (for N = 2:
\* 10, 20, 50, 80, 80, 100), and 100 is emitted before finished.
C15_ExactProgressSequence ==
    (Finished /\ Len(chunks) >= 1) =>
        /\ progress_log = ExpectedProgress(Len(chunks))
        /\ Len(chunks) = 2 => progress_log = <<10, 20, 50, 80, 80, 100>>
        /\ signal_log = [k \in 1..(Len(chunks) + 5) |->
                           IF k <= Len(chunks) + 4 THEN "progress" ELSE "finished"]

\* C15's case: a finished run over 7 chunks, where 60 i / N is no integer
\* (the first map progress is 28), with a failed map call.
C15_Witness ==
    /\ Finished
    /\ Len(chunks) = 7
    /\ MapRaised(3)
    /\ progress_log[3] = 28

Abs(x) == IF x < 0 THEN -x ELSE x

\* C16: estimate_words_from_tokens(estimate_tokens(text)) differs from
\* count_words(text) by at most 1, and the estimators return 0 for the
\* empty string (and for 0 tokens).
C16_RoundTripWithinOne ==
    pc = "estimated" =>
        /\ Abs(estimates.words_back - estimates.words) <= 1
        /\ text_to_summarize.segs = <<>> =>
             (estimates.words = 0 /\ estimates.tokens = 0 /\ estimates.words_back = 0)
        /\ target_tokens = 0 => estimates.words_of_target = 0

\* C16's case: a text of 7 words estimates to 9 tokens and back to 6 words,
\* one word short.
C16_Witness ==
    /\ pc = "estimated"
    /\ estimates.words = 7
    /\ estimates.tokens = 9
    /\ estimates.words_back = 6

\* C17 as stated: estimate_tokens is count_words * 1.3 rounded to the
\* nearest integer and estimate_words_from_tokens is t / 1.3 rounded to
\* the nearest integer (a tie may go either way).
C17_EstimatesRoundToNearest ==
    pc = "estimated" =>
        /\ 2 * Abs(10 * estimates.tokens - 13 * estimates.words) <= 10
        /\ 2 * Abs(13 * estimates.words_of_target - 10 * target_tokens) <= 13

\* C17 amended: estimate_tokens is count_words * 1.3 truncated to an
\* integer (rounded down) and estimate_words_from_tokens is t / 1.3
\* truncated to an integer.
C17_EstimatesTruncate ==
    pc = "estimated" =>
        /\ 10 * estimates.tokens <= 13 * estimates.words
        /\ 13 * estimates.words < 10 * (estimates.tokens + 1)
        /\ 13 * estimates.words_of_target <= 10 * target_tokens
        /\ 10 * target_tokens < 13 * (estimates.words_of_target + 1)

\* C17's case: 2 words (2.6) estimate to 2 tokens and 1 token (0.77) to 0
\* words, where rounding to nearest would give 3 and 1.
C17_Witness ==
    /\ pc = "estimated"
    /\ estimates.words = 2
    /\ estimates.tokens = 2
    /\ target_tokens = 1
    /\ estimates.words_of_target = 0

ChunkTokensOf(j) == estimate_tokens(count_words(chunks[calls[j].chunk]))

\* x / 2 rounded to the nearest integer, a half rounded up, and a half
\* rounded to the even neighbour (Python's round)
RoundHalfUp(x) == (x + 1) \div 2
RoundHalfEven(x) ==
    IF x % 2 = 0 THEN x \div 2
    ELSE IF ((x - 1) \div 2) % 2 = 0 THEN (x - 1) \div 2 ELSE (x + 1) \div 2

\* C18 as stated: the max output tokens of every map call is
\* min(round(chunkTokens * 0.5), 4000), under either convention for a half.
C18_MapBudgetIsRoundedHalf ==
    \A j \in MapCalls :
        calls[j].max_completion_tokens
            \in {Min(RoundHalfUp(ChunkTokensOf(j)), MaxMapOutputTokens),
                 Min(RoundHalfEven(ChunkTokensOf(j)), MaxMapOutputTokens)}

\* C18 amended: the max output tokens of every map call is
\* min(floor(chunkTokens * 0.5), 4000): never above 4000, 4000 for
\* chunkTokens = 10000, 1000 for chunkTokens = 2000, whatever the level.
C18_MapBudgetIsTruncatedHalf ==
    \A j \in MapCalls :
        LET ct == ChunkTokensOf(j)
            m == calls[j].max_completion_tokens IN
        /\ m <= 4000
        /\ ct >= 8000 => m = 4000
        /\ ct < 8000 => (2 * m <= ct /\ ct <= 2 * m + 1)
        /\ ct = 10000 => m = 4000
        /\ ct = 2000 => m = 1000

\* C18's case: one run with a map call for a chunk of 10000 tokens (capped
\* at 4000) and one for a chunk of 3 tokens (budget 1, where rounding
\* would give 2).
C18_Witness ==
    /\ \E j \in MapCalls :
         ChunkTokensOf(j) = 10000 /\ calls[j].max_completion_tokens = 4000
    /\ \E j \in MapCalls :
         ChunkTokensOf(j) = 3 /\ calls[j].max_completion_tokens = 1

LevelTable ==
    [low |-> [words |-> 5000, tokens |-> 6500],
     medium |-> [words |-> 2500, tokens |-> 3250],
     high |-> [words |-> 800, tokens |-> 1040]]

\* C19: 'low' gives target_words 5000 and target_tokens 6500, 'medium'
\* 2500 and 3250, 'high' 800 and 1040; the reduce call's max output tokens
\* is min(target_tokens, 16000), which is target_tokens for all three.
C19_LevelTargetsFixed ==
    /\ (pc # "start" /\ ~TokenRejected(api_token)) =>
         /\ TargetWords(summary_level) = LevelTable[summary_level].words
         /\ target_tokens = LevelTable[summary_level].tokens
    /\ \A j \in ReduceCalls :
         /\ calls[j].max_completion_tokens = LevelTable[summary_level].tokens
         /\ calls[j].max_completion_tokens = target_tokens
         /\ calls[j].max_completion_tokens <= 16000

\* C19's case: the reduce call of a 'high' (Concise) run, issued with 1040
\* max output tokens.
C19_Witness ==
    /\ summary_level = "high"
    /\ \E j \in ReduceCalls : calls[j].max_completion_tokens = 1040
    /\ Len(chunks) >= 1

UnitTokens(unit) == estimate_tokens(count_words(<<unit>>))

\* C20: packing is greedy and maximal: for consecutive chunks k and k+1,
\* the running token total of chunk k plus the estimate of the first unit
\* of chunk k+1 exceeds 8000 (a unit that still fits is never moved on).
C20_PackingGreedyMaximal ==
    pc = "planned" =>
        \A k \in 1..(Len(chunks) - 1) :
            RunningTokens(chunks[k]) + UnitTokens(Head(chunks[k + 1])) > 8000

\* C20's case: a first chunk of two units filled exactly to the ceiling
\* (2 + 7998 tokens), followed by a second chunk.
C20_Witness ==
    /\ pc = "planned"
    /\ Len(chunks) >= 2
    /\ Len(chunks[1]) = 2
    /\ RunningTokens(chunks[1]) = 8000

\* C21: a semantic unit whose own token estimate exceeds 8000 is never
\* split and is the sole unit of its chunk, wherever it occurs in the
\* document: every source unit over the ceiling is, whole, a chunk of its
\* own, and no chunk holds an oversized unit next to another unit.
C21_OversizedUnitAlone ==
    pc = "planned" =>
        LET units == SemanticUnits(text_to_summarize) IN
        /\ \A k \in DOMAIN chunks :
             (\E u \in DOMAIN chunks[k] : UnitTokens(chunks[k][u]) > max_chunk_tokens)
                 => Len(chunks[k]) = 1
        /\ \A u \in DOMAIN units :
             UnitTokens(units[u]) > max_chunk_tokens =>
                 \E k \in DOMAIN chunks : chunks[k] = <<units[u]>>

\* C21's case: an oversized unit in the middle of the document, a smaller
\* unit before it and one after it, planned as three chunks.
C21_Witness ==
    /\ pc = "planned"
    /\ Len(chunks) = 3
    /\ UnitTokens(chunks[1][1]) <= max_chunk_tokens
    /\ Len(chunks[2]) = 1
    /\ UnitTokens(chunks[2][1]) > max_chunk_tokens
    /\ UnitTokens(chunks[3][1]) <= max_chunk_tokens

PlannerRaises == ~text_to_summarize.isStr

\* C22: if the planner raises during chunking the run fails: the error
\* signal carries a reason, the progress values emitted are exactly 10, no
\* completion call is issued and finished is not emitted; and a planner
\* exception is the only way a run that passed the credential check ends
\* with the error signal.
C22_PlannerFailureOnlyEarlyError ==
    /\ (PlannerRaises /\ ~TokenRejected(api_token) /\ pc \notin {"start", "chunking"}) =>
         /\ pc = "done"
         /\ Len(error_log) = 1
         /\ error_log[1] # ""
         /\ signal_log = <<"progress", "error">>
         /\ progress_log = <<10>>
         /\ calls = <<>>
         /\ ~Finished
    /\ (Errored /\ ~TokenRejected(api_token)) =>
         /\ PlannerRaises
         /\ ReduceCalls = {}
         /\ MapCalls = {}

\* C22's case: a run with a good credential whose planner raised, ended.
C22_Witness ==
    /\ pc = "done"
    /\ api_token = REAL_TOKEN
    /\ PlannerRaises
    /\ Errored
    /\ progress_log = <<10>>

XSignals(name) ==
    {k \in DOMAIN extractor_signals : extractor_signals[k].signal = name}

RECURSIVE CountPages(_, _)
CountPages(pages, results) ==
    IF pages = <<>> THEN 0
    ELSE (IF Head(pages).result \in results THEN 1 ELSE 0)
         + CountPages(Tail(pages), results)

RECURSIVE PdfWords(_)
PdfWords(pages) ==
    IF pages = <<>> THEN 0 ELSE Head(pages).words + PdfWords(Tail(pages))

\* The checks C23 names, on the file itself: at least 500 words of text, at
\* least one page, not encrypted, at most 0.7 of the pages empty (no text,
\* or extraction raised).
PdfMeetsRequirements ==
    /\ PdfWords(pdf.pages) >= 500
    /\ Len(pdf.pages) >= 1
    /\ ~pdf.is_encrypted
    /\ 10 * CountPages(pdf.pages, {"blank", "raises"}) <= 7 * Len(pdf.pages)

\* C23: PdfTextExtractor emits finished only if every validation passed
\* (text of at least 500 words, at least 1 page, not encrypted, at most 0.7
\* of the pages empty), and the text handed on is the text of the pages; a
\* run on a file that fails one of the checks emits validation_failed and
\* not finished.
C23_FinishedOnlyIfValidated ==
    /\ \A k \in XSignals("finished") :
         /\ PdfMeetsRequirements
         /\ extractor_signals[k].value = PdfWords(pdf.pages)
         /\ extractor_signals[k].value > 0
         /\ XSignals("validation_failed") = {}
    /\ (extractor.pc = "done" /\ ~PdfMeetsRequirements) =>
         /\ XSignals("validation_failed") # {}
         /\ XSignals("finished") = {}

\* C23's case: a file of ten pages, seven of them empty (exactly 0.7), whose
\* text was handed on.
C23_Witness ==
    /\ extractor.pc = "done"
    /\ Len(pdf.pages) = 10
    /\ CountPages(pdf.pages, {"blank", "raises"}) = 7
    /\ XSignals("finished") # {}

XTerminalCount ==
    Cardinality(XSignals("finished") \cup XSignals("validation_failed")
                \cup XSignals("error"))

\* The progress values of an extractor run: non-decreasing; the per-page
\* values are at most 80 and come before 85, 85 comes before 100, and 100
\* is followed at once by finished.
XProgressShape ==
    \A k \in XSignals("progress") :
        LET v == extractor_signals[k].value IN
        /\ v \in 0..100
        /\ \A j \in XSignals("progress") : j < k => extractor_signals[j].value <= v
        /\ v \notin {85, 100} => v <= 80
        /\ v = 85 => \A j \in XSignals("progress") :
                        j < k => extractor_signals[j].value <= 80
        /\ v = 100 =>
             /\ k > 1
             /\ extractor_signals[k - 1] = XSignal("progress", 85, "")
             /\ k < Len(extractor_signals)
             /\ extractor_signals[k + 1].signal = "finished"

C24_MapBudgetAtLeastOne ==
    \A j \in MapCalls : calls[j].max_completion_tokens >= 1

\* C25: for each of the three levels the word target written into the
\* synthesis prompt, estimate_words_from_tokens(target_tokens), equals the
\* level's target_words exactly (5000, 2500, 800).
C25_WordTargetRoundTrips ==
    \A j \in ReduceCalls :
        /\ estimates.words_of_target = TargetWords(summary_level)
        /\ estimates.words_of_target = LevelTable[summary_level].words
        /\ estimates.words_of_target = estimate_words_from_tokens(TargetTokens(summary_level))

\* C25's case: the reduce call of a 'low' (Comprehensive) run over at least
\* one chunk, its prompt asking for 5000 words.
C25_Witness ==
    /\ summary_level = "low"
    /\ ReduceCalls # {}
    /\ Len(chunks) >= 1
    /\ estimates.words_of_target = 5000

BothDone == pc = "done" /\ app_worker.pc = "done"

\* C26: the two copies of the pipeline, in app.py and in summarizer.py, are
\* equivalent: on the same text, level, credential and call outcomes they
\* produce the same chunk list, the same completion calls with the same
\* output budgets, the same progress sequence and the same terminal
\* outcome.
C26_CopiesEquivalent ==
    BothDone =>
        /\ app_worker.chunks = chunks
        /\ Len(app_worker.calls) = Len(calls)
        /\ \A k \in DOMAIN calls :
             /\ app_worker.calls[k].stage = calls[k].stage
             /\ app_worker.calls[k].max_completion_tokens = calls[k].max_completion_tokens
             /\ app_worker.calls[k].outcome = calls[k].outcome
        /\ app_worker.progress_log = progress_log
        /\ app_worker.finished_log = finished_log
        /\ (app_worker.error_log # <<>>) <=> (error_log # <<>>)

\* The summarizer workers in flight: started, terminal signal not yet
\* emitted.
RunsInFlight ==
    {t \in DOMAIN threads :
        threads[t].worker = "ReplicateSummarizerWorker" /\ threads[t].status = "running"}

C28_SummaryOfLoadedDocument ==
    window.summary_textarea.kind = "summary" =>
        /\ window.summary_textarea.of = window.extracted_pdf_text
        /\ window.file_path_input \in DocFiles
        /\ window.summary_textarea.of = TextOf(window.file_path_input)

DisablingHandlers ==
    {"open_file_dialog", "handle_pdf_extracted", "handle_validation_failed",
     "summarize_pdf", "handle_summary_error"}

====
